---------------------------- MODULE Spec2Model ----------------------------
(***************************************************************************)
(* A model of src/src/langchain_wenxin/llms.py: the credential cache of    *)
(* WenxinClient (grant_token / async_grant_token), the turn encoder of     *)
(* ChatWenxin (_convert_messages_to_prompt), the response classification   *)
(* of the four completion calls, the frame reader of acompletion_stream,   *)
(* the HTTP connection of a streaming call, one completion call from       *)
(* get_token to its end, the two get_token variants side by side,          *)
(* construct_message, ChatWenxin._generate and concurrent                  *)
(* async_grant_token calls.                                                *)
(*                                                                         *)
(* The module holds one specification per component; each leaves the       *)
(* variables of the other components at their idle values.                 *)
(***************************************************************************)
EXTENDS Integers, Sequences, FiniteSets, TLC

VARIABLES
    \* ---- WenxinClient credential cache (llms.py 40-41) and the clock
    access_token,           \* self.access_token
    access_token_expires,   \* self.access_token_expires
    clock,                  \* int(time.time())
    \* ---- the get_token call in progress / last finished
    pc,                     \* "idle" | "grant_wait" | "async_grant_wait"
    now_timestamp,          \* the local now_timestamp of that call
    grantCalls,             \* requests that call sent to WENXIN_TOKEN_URL
    r_grant,                \* the answer of the token endpoint to that call
    ret,                    \* what that call returned or raised
    calls,                  \* number of get_token calls made so far
    issued,                 \* what the token endpoint issued last: token, time, lifetime
    \* ---- ChatWenxin._convert_messages_to_prompt
    messages,               \* the argument: a sequence of turns
    encRet,                 \* the value returned or the error raised
    \* ---- the completion calls of WenxinClient
    dOp,                    \* which of the four calls was made
    dReq,                   \* the request it sent to the chat endpoint
    dResp,                  \* the HTTP answer of the chat endpoint
    dRet,                   \* what the call raised, returned and yielded
    \* ---- the frame reader of acompletion_stream
    body,                   \* the characters of the event-stream body
    chunks,                 \* what iterating r.content delivered
    sRet,                   \* the elements yielded and the error raised
    \* ---- the HTTP connection of one streaming call
    conn,                   \* "none" | "open" | "released"
    cOp,                    \* "completion_stream" | "acompletion_stream"
    cPhase,                 \* where the generator stands
    cExit,                  \* how the generator ended
    cLeft,                  \* the events of the body not yet read
    cYielded,               \* number of elements yielded so far
    \* ---- one completion call from its first statement to its end
    kOp,                    \* which of the four calls is running
    kPc,                    \* "idle" | "grant_wait" | "post_wait" | "streaming" | "done"
    kArgs,                  \* its arguments model, prompt, history
    kNow,                   \* now_timestamp of its get_token
    kLog,                   \* the requests it has sent, in order
    kAnswer,                \* the last answer it received
    kLeft,                  \* the events of the body not yet read
    kRaised,                \* the error it raised, "none" if none
    kCalls,                 \* number of completion calls made so far
    \* ---- get_token run in both variants from one starting point
    eIn,                    \* cached token and expiry, clock, answer
    eSync,                  \* what grant_token did from there
    eAsync,                 \* what async_grant_token did from there
    \* ---- construct_message
    mPrompt,                \* the argument prompt
    mHistory,               \* the argument history
    mMessages,              \* the list returned
    mDone,                  \* whether construct_message has returned
    \* ---- ChatWenxin._generate
    streaming,              \* self.streaming
    gAnswer,                \* the vendor's answer, as its result deltas
    gContent,               \* the content of the AIMessage returned
    gDone,                  \* whether _generate has returned
    \* ---- coroutines calling async_grant_token on one client
    aPc,                    \* per coroutine: "idle" | "wait" | "done"
    aNow,                   \* per coroutine: its local now_timestamp
    aAnswer,                \* the answer the last resumed coroutine got
    aCalls                  \* number of async_grant_token calls so far

tokenVars  == <<access_token, access_token_expires, clock, pc, now_timestamp,
                grantCalls, r_grant, ret, calls, issued>>
encVars    == <<messages, encRet>>
dispVars   == <<dOp, dReq, dResp, dRet>>
streamVars == <<body, chunks, sRet>>
connVars   == <<conn, cOp, cPhase, cExit, cLeft, cYielded>>
callVars   == <<kOp, kPc, kArgs, kNow, kLog, kAnswer, kLeft, kRaised, kCalls>>
equivVars  == <<eIn, eSync, eAsync>>
msgVars    == <<mPrompt, mHistory, mMessages, mDone>>
genVars    == <<streaming, gAnswer, gContent, gDone>>
asyncVars  == <<aPc, aNow, aAnswer, aCalls>>
vars       == <<tokenVars, encVars, dispVars, streamVars, connVars, callVars, equivVars, msgVars, genVars, asyncVars>>

\* Everything but the variables of one component.
notToken   == <<encVars, dispVars, streamVars, connVars, callVars, equivVars, msgVars, genVars, asyncVars>>
notEnc     == <<tokenVars, dispVars, streamVars, connVars, callVars, equivVars, msgVars, genVars, asyncVars>>
notDisp    == <<tokenVars, encVars, streamVars, connVars, callVars, equivVars, msgVars, genVars, asyncVars>>
notStream  == <<tokenVars, encVars, dispVars, connVars, callVars, equivVars, msgVars, genVars, asyncVars>>
notConn    == <<tokenVars, encVars, dispVars, streamVars, callVars, equivVars, msgVars, genVars, asyncVars>>
notCall    == <<encVars, dispVars, streamVars, connVars, equivVars, msgVars, genVars, asyncVars>>
notEquiv   == <<tokenVars, encVars, dispVars, streamVars, connVars, callVars, msgVars, genVars, asyncVars>>
notMsg     == <<tokenVars, encVars, dispVars, streamVars, connVars, callVars, equivVars, genVars, asyncVars>>
notGen     == <<tokenVars, encVars, dispVars, streamVars, connVars, callVars, equivVars, msgVars, asyncVars>>
notAsync   == <<encVars, dispVars, streamVars, connVars, callVars, equivVars, msgVars, genVars>>

(***************************************************************************)
(* Bounds of the model.                                                    *)
(***************************************************************************)
MaxClock    == 4    \* the clock runs from 1 to MaxClock
MaxLifetime == 2    \* expires_in of a grant answer ranges over 0..MaxLifetime
MaxCalls    == 3    \* get_token calls in one behaviour
MaxEvents   == 3    \* events in the body of one streamed answer
MaxCompletions == 2 \* completion calls in one behaviour
MaxPairs    == 3    \* (human, assistant) pairs in a history
MaxDeltas   == 3    \* result deltas of one streamed answer

NoRet == [kind |-> "none"]

NoGrantAnswer == [kind |-> "none"]

NoIssue == [token |-> "", at |-> 0, expires_in |-> 0]

(***************************************************************************)
(*                       1.  THE CREDENTIAL CACHE                          *)
(***************************************************************************)
Tokens    == {"t1", "t2"}
Lifetimes == 0..MaxLifetime

\* JSON bodies the token endpoint may answer with: the documented shape
\* {access_token, expires_in} and the bodies that miss a field.
GrantBodies ==
    {[access_token |-> t, expires_in |-> e] : t \in Tokens, e \in Lifetimes}
    \cup {[access_token |-> t] : t \in Tokens}
    \cup {[expires_in |-> e] : e \in Lifetimes}
    \cup {[error |-> "invalid_client"]}

\* What requests.get / session.get can come back with.
GrantAnswers ==
    {[kind |-> "unreachable"]}
    \cup {[kind |-> "http", status |-> 500, json |-> FALSE]}
    \cup {[kind |-> "http", status |-> 200, json |-> FALSE]}
    \cup {[kind |-> "http", status |-> 200, json |-> TRUE, body |-> b] :
              b \in GrantBodies}

Ok(t)    == [kind |-> "ok", token |-> t]
Raise(e) == [kind |-> "error", error |-> e]

\* __init__ (lines 40-41): the cache starts empty.
TokenInit ==
    /\ access_token = ""
    /\ access_token_expires = 0
    /\ clock = 1
    /\ pc = "idle"
    /\ now_timestamp = 0
    /\ grantCalls = 0
    /\ r_grant = NoGrantAnswer
    /\ ret = NoRet
    /\ calls = 0
    /\ issued = NoIssue
    /\ messages = <<>> /\ encRet = NoRet
    /\ dOp = "none" /\ dReq = NoRet /\ dResp = NoRet /\ dRet = NoRet
    /\ body = <<>> /\ chunks = <<>> /\ sRet = NoRet
    /\ conn = "none" /\ cOp = "none" /\ cPhase = "idle" /\ cExit = "none"
    /\ cLeft = <<>> /\ cYielded = 0
    /\ kOp = "none" /\ kPc = "idle" /\ kArgs = NoRet /\ kNow = 0 /\ kLog = <<>>
    /\ kAnswer = NoRet /\ kLeft = <<>> /\ kRaised = "none" /\ kCalls = 0
    /\ eIn = NoRet /\ eSync = NoRet /\ eAsync = NoRet
    /\ mPrompt = "" /\ mHistory = <<>> /\ mMessages = <<>> /\ mDone = FALSE
    /\ streaming = FALSE /\ gAnswer = <<>> /\ gContent = NoRet /\ gDone = FALSE
    /\ aPc = <<>> /\ aNow = <<>> /\ aAnswer = NoGrantAnswer /\ aCalls = 0

\* Time passes, also while a request is in flight.
Tick ==
    /\ clock < MaxClock
    /\ clock' = clock + 1
    /\ UNCHANGED <<access_token, access_token_expires, pc, now_timestamp,
                   grantCalls, r_grant, ret, calls, issued>>
    /\ UNCHANGED notToken

\* The test of line 53 with the comparison the wrong way round.
grant_token_reversed(tok, now, expires) == tok /= "" /\ now > expires

\* The test of line 53 with <= for <.
grant_token_cached_inclusive(tok, now, expires) == tok /= "" /\ now <= expires

\* grant_token, line 53: "if self.access_token and now_timestamp < ...expires".
grant_token_cached(tok, now, expires) == tok /= "" /\ now < expires

\* The test of line 74 with <= for <.
async_grant_token_cached_inclusive(tok, now, expires) ==
    tok /= "" /\ now <= expires

\* async_grant_token, line 74: the same test, written a second time.
async_grant_token_cached(tok, now, expires) == tok /= "" /\ now < expires

\* The same with the lifetime stored as the expiry, the call time not added.
StoreGrantLifetimeOnly(tok, expires, now, answer) ==
    IF answer.kind = "unreachable"
    THEN [token |-> tok, expires |-> expires, ret |-> Raise("ConnectionError")]
    ELSE IF answer.status >= 400
    THEN [token |-> tok, expires |-> expires, ret |-> Raise("HTTPError")]
    ELSE IF ~answer.json
    THEN [token |-> tok, expires |-> expires, ret |-> Raise("JSONDecodeError")]
    ELSE IF "access_token" \notin DOMAIN answer.body
    THEN [token |-> tok, expires |-> expires, ret |-> Raise("KeyError")]
    ELSE LET tok1 == answer.body.access_token IN
         IF "expires_in" \notin DOMAIN answer.body
         THEN [token |-> tok1, expires |-> expires, ret |-> Raise("KeyError")]
         ELSE [token |-> tok1, expires |-> answer.body.expires_in,
               ret |-> Ok(tok1)]

\* Lines 65-69: raise_for_status, r.json(), then the two
\* assignments one after the other.  The result is the cache and the outcome
\* after the last statement that ran.
StoreGrant(tok, expires, now, answer) ==
    IF answer.kind = "unreachable"
    THEN [token |-> tok, expires |-> expires, ret |-> Raise("ConnectionError")]
    ELSE IF answer.status >= 400
    THEN [token |-> tok, expires |-> expires, ret |-> Raise("HTTPError")]
    ELSE IF ~answer.json
    THEN [token |-> tok, expires |-> expires, ret |-> Raise("JSONDecodeError")]
    ELSE IF "access_token" \notin DOMAIN answer.body
    THEN [token |-> tok, expires |-> expires, ret |-> Raise("KeyError")]
    ELSE LET tok1 == answer.body.access_token IN
         IF "expires_in" \notin DOMAIN answer.body
         THEN [token |-> tok1, expires |-> expires, ret |-> Raise("KeyError")]
         ELSE [token |-> tok1, expires |-> now + answer.body.expires_in,
               ret |-> Ok(tok1)]

\* Lines 89-94 with a failed answer swallowed: the cached token is returned
\* as if the refresh had succeeded.
async_StoreGrantStale(tok, expires, now, answer) ==
    IF answer.kind = "unreachable" \/ answer.status >= 400 \/ ~answer.json
    THEN [token |-> tok, expires |-> expires, ret |-> Ok(tok)]
    ELSE StoreGrant(tok, expires, now, answer)

\* async_grant_token from the answer on (lines 89-94): raise_for_status and
\* "await r.json()" inside the two "async with" blocks, the two assignments
\* after them, with no await in between.
async_StoreGrant(tok, expires, now, answer) ==
    IF answer.kind = "unreachable"
    THEN [token |-> tok, expires |-> expires, ret |-> Raise("ConnectionError")]
    ELSE IF answer.status >= 400
    THEN [token |-> tok, expires |-> expires, ret |-> Raise("HTTPError")]
    ELSE IF ~answer.json
    THEN [token |-> tok, expires |-> expires, ret |-> Raise("JSONDecodeError")]
    ELSE LET response == answer.body IN
         IF "access_token" \notin DOMAIN response
         THEN [token |-> tok, expires |-> expires, ret |-> Raise("KeyError")]
         ELSE IF "expires_in" \notin DOMAIN response
         THEN [token |-> response.access_token, expires |-> expires,
               ret |-> Raise("KeyError")]
         ELSE [token |-> response.access_token,
               expires |-> now + response.expires_in,
               ret |-> Ok(response.access_token)]

\* The token endpoint's side of a refresh: with a complete answer it has
\* issued the token of the answer, at some time "at" between the call and
\* the arrival of the answer, for the lifetime the answer declares.
Issue(last, at, answer) ==
    IF /\ answer.kind = "http"
       /\ answer.status = 200
       /\ answer.json
       /\ {"access_token", "expires_in"} \subseteq DOMAIN answer.body
    THEN [token |-> answer.body.access_token, at |-> at,
          expires_in |-> answer.body.expires_in]
    ELSE last

\* grant_token up to the request (lines 52-64).
grant_token ==
    /\ pc = "idle"
    /\ calls < MaxCalls
    /\ calls' = calls + 1
    /\ now_timestamp' = clock
    /\ r_grant' = NoGrantAnswer
    /\ IF grant_token_cached(access_token, clock, access_token_expires)
       THEN /\ ret' = Ok(access_token)
            /\ grantCalls' = 0
            /\ pc' = "idle"
       ELSE /\ ret' = NoRet
            /\ grantCalls' = 1
            /\ pc' = "grant_wait"
    /\ UNCHANGED <<access_token, access_token_expires, clock, issued>>
    /\ UNCHANGED notToken

\* grant_token from the answer on (lines 65-69).
grant_token_answer ==
    /\ pc = "grant_wait"
    /\ \E answer \in GrantAnswers :
         LET s == StoreGrant(access_token, access_token_expires,
                             now_timestamp, answer) IN
         /\ r_grant' = answer
         /\ access_token' = s.token
         /\ access_token_expires' = s.expires
         /\ ret' = s.ret
         /\ \E at \in now_timestamp..clock : issued' = Issue(issued, at, answer)
    /\ pc' = "idle"
    /\ UNCHANGED <<clock, now_timestamp, grantCalls, calls>>
    /\ UNCHANGED notToken

\* async_grant_token up to the await (lines 73-88).
async_grant_token ==
    /\ pc = "idle"
    /\ calls < MaxCalls
    /\ calls' = calls + 1
    /\ now_timestamp' = clock
    /\ r_grant' = NoGrantAnswer
    /\ IF async_grant_token_cached(access_token, clock, access_token_expires)
       THEN /\ ret' = Ok(access_token)
            /\ grantCalls' = 0
            /\ pc' = "idle"
       ELSE /\ ret' = NoRet
            /\ grantCalls' = 1
            /\ pc' = "async_grant_wait"
    /\ UNCHANGED <<access_token, access_token_expires, clock, issued>>
    /\ UNCHANGED notToken

\* async_grant_token from the answer on (lines 89-94).
async_grant_token_answer ==
    /\ pc = "async_grant_wait"
    /\ \E answer \in GrantAnswers :
         LET s == async_StoreGrant(access_token, access_token_expires,
                             now_timestamp, answer) IN
         /\ r_grant' = answer
         /\ access_token' = s.token
         /\ access_token_expires' = s.expires
         /\ ret' = s.ret
         /\ \E at \in now_timestamp..clock : issued' = Issue(issued, at, answer)
    /\ pc' = "idle"
    /\ UNCHANGED <<clock, now_timestamp, grantCalls, calls>>
    /\ UNCHANGED notToken

TokenNext ==
    \/ Tick
    \/ grant_token
    \/ grant_token_answer
    \/ async_grant_token
    \/ async_grant_token_answer

SpecToken ==
    TokenInit /\ [][TokenNext]_vars

(***************************************************************************)
(* Claims about the credential cache, checked under SpecToken.             *)
(***************************************************************************)
\* A step that is a call of get_token, in either variant.
IsGetTokenCall == calls' = calls + 1

\* The last get_token call has returned after a successful refresh.
Refreshed == pc = "idle" /\ ret.kind = "ok" /\ grantCalls = 1

\* C1: a get_token call made while the cached token is non-empty and the
\* current time is strictly before the cached expiry sends no request to the
\* token endpoint, returns the cached token and leaves token and expiry as
\* they were, whatever calls and clock advances came before.
C1_CredentialReuse ==
    [][ (IsGetTokenCall /\ access_token /= "" /\ clock < access_token_expires)
        => /\ pc' = "idle"
           /\ grantCalls' = 0
           /\ ret' = Ok(access_token)
           /\ access_token' = access_token
           /\ access_token_expires' = access_token_expires ]_vars

\* A call other than the first was served from the cache, at a later time
\* than the refresh that filled it.
C1_Witness ==
    /\ pc = "idle"
    /\ calls >= 2
    /\ grantCalls = 0
    /\ ret = Ok(access_token)
    /\ access_token \in Tokens
    /\ now_timestamp > 1
    /\ now_timestamp < access_token_expires

\* C2 as stated: after a get_token call that found the cache empty or
\* expired and got a successful answer, one request was sent, the token of
\* the answer is cached and returned, and the call time is strictly before
\* the new expiry, for every lifetime the endpoint declares.
C2_RefreshAsStated ==
    Refreshed =>
        /\ access_token = r_grant.body.access_token
        /\ ret = Ok(r_grant.body.access_token)
        /\ now_timestamp < access_token_expires

\* C2 as amended: a get_token call made while the cache is empty or expired
\* sends exactly one request; if it is answered successfully the token of the
\* answer is cached and returned and the new expiry is the call time plus the
\* declared lifetime, so the call time is strictly before the new expiry
\* whenever the declared lifetime is positive.
C2_Refresh ==
    /\ [](Refreshed =>
            /\ access_token = r_grant.body.access_token
            /\ ret = Ok(r_grant.body.access_token)
            /\ access_token_expires = now_timestamp + r_grant.body.expires_in
            /\ (r_grant.body.expires_in > 0
                  => now_timestamp < access_token_expires))
    /\ [][ (IsGetTokenCall
            /\ (access_token = "" \/ clock >= access_token_expires))
           => (pc' /= "idle" /\ grantCalls' = 1) ]_vars
    /\ [][ pc /= "idle" => grantCalls' = grantCalls ]_vars

\* An expired token was replaced by a refresh with a positive lifetime.
C2_Witness ==
    /\ Refreshed
    /\ calls >= 2
    /\ r_grant.body.expires_in > 0
    /\ now_timestamp > 1
    /\ now_timestamp < access_token_expires

\* C3: a get_token call that fails leaves the cached token and the cached
\* expiry exactly as they were before the call.
C3_FailedRefreshKeepsCache ==
    [][ (pc /= "idle" /\ pc' = "idle" /\ ret'.kind = "error")
        => /\ access_token' = access_token
           /\ access_token_expires' = access_token_expires ]_vars

(***************************************************************************)
(*                         2.  THE TURN ENCODER                            *)
(***************************************************************************)
MaxTurns == 4    \* longest conversation handed to the encoder

System(t)    == [type |-> "system", content |-> t]
Human(t)     == [type |-> "human",  content |-> t]
Assistant(t) == [type |-> "ai",     content |-> t]

Turns ==
    {System("sys"), Human("a"), Human("b"), Human("c"),
     Assistant("a"), Assistant("b")}

Conversations == UNION {[1..n -> Turns] : n \in 0..MaxTurns}

\* pair = [None, None]: the human half of the pending pair is None or a text.
None == <<>>

\* The loop of lines 523-536 from the i-th message on, over messages[:-1].
\* A system message is appended to history (lines 524-525) and then goes
\* through the if / elif / else of lines 526-536 like any other message.
RECURSIVE walk(_, _, _, _)
walk(msgs, i, history, pair0) ==
    IF i > Len(msgs) - 1
    THEN [raised |-> "none", history |-> history]
    ELSE LET message == msgs[i]
             h1 == IF message.type = "system"
                   THEN Append(history, <<message.content, "OK\n">>)
                   ELSE history
         IN  IF pair0 = None
             THEN IF message.type = "human"
                  THEN walk(msgs, i + 1, h1, <<message.content>>)
                  ELSE [raised |-> "OrderError", history |-> h1]
             ELSE IF message.type = "ai"
                  THEN walk(msgs, i + 1,
                            Append(h1, <<pair0[1], message.content>>), None)
                  ELSE [raised |-> "OrderError", history |-> h1]

\* The encoder without the test of the last message (lines 537-538 left out).
convert_without_last_check(msgs) ==
    IF msgs = <<>>
    THEN [kind |-> "IndexError"]
    ELSE LET w == walk(msgs, 1, <<>>, None) IN
         IF w.raised /= "none"
         THEN [kind |-> w.raised]
         ELSE [kind |-> "ok", prompt |-> msgs[Len(msgs)].content,
               history |-> w.history]

\* _convert_messages_to_prompt (lines 519-539).  messages[-1] of an empty
\* list raises IndexError.
convert_messages_to_prompt(msgs) ==
    IF msgs = <<>>
    THEN [kind |-> "IndexError"]
    ELSE LET w == walk(msgs, 1, <<>>, None) IN
         IF w.raised /= "none"
         THEN [kind |-> w.raised]
         ELSE IF msgs[Len(msgs)].type /= "human"
         THEN [kind |-> "LastTurnError"]
         ELSE [kind |-> "ok", prompt |-> msgs[Len(msgs)].content,
               history |-> w.history]

EncInit ==
    /\ messages \in Conversations
    /\ encRet = NoRet
    /\ access_token = ""
    /\ access_token_expires = 0
    /\ clock = 1
    /\ pc = "idle"
    /\ now_timestamp = 0
    /\ grantCalls = 0
    /\ r_grant = NoGrantAnswer
    /\ ret = NoRet
    /\ calls = 0
    /\ issued = NoIssue
    /\ dOp = "none" /\ dReq = NoRet /\ dResp = NoRet /\ dRet = NoRet
    /\ body = <<>> /\ chunks = <<>> /\ sRet = NoRet
    /\ conn = "none" /\ cOp = "none" /\ cPhase = "idle" /\ cExit = "none"
    /\ cLeft = <<>> /\ cYielded = 0
    /\ kOp = "none" /\ kPc = "idle" /\ kArgs = NoRet /\ kNow = 0 /\ kLog = <<>>
    /\ kAnswer = NoRet /\ kLeft = <<>> /\ kRaised = "none" /\ kCalls = 0
    /\ eIn = NoRet /\ eSync = NoRet /\ eAsync = NoRet
    /\ mPrompt = "" /\ mHistory = <<>> /\ mMessages = <<>> /\ mDone = FALSE
    /\ streaming = FALSE /\ gAnswer = <<>> /\ gContent = NoRet /\ gDone = FALSE
    /\ aPc = <<>> /\ aNow = <<>> /\ aAnswer = NoGrantAnswer /\ aCalls = 0

\* One call of the encoder on the conversation.
Encode ==
    /\ encRet = NoRet
    /\ encRet' = convert_messages_to_prompt(messages)
    /\ UNCHANGED messages
    /\ UNCHANGED notEnc

EncNext == Encode

SpecEncode == EncInit /\ [][EncNext]_vars

(***************************************************************************)
(* Claims about the encoder, checked under SpecEncode.                     *)
(***************************************************************************)
Encoded == encRet /= NoRet

LastTurn(msgs) == msgs[Len(msgs)]
Earlier(msgs)  == SubSeq(msgs, 1, Len(msgs) - 1)

IsNotSystem(m) == m.type /= "system"

\* The turns are Human, Assistant, Human, Assistant, ... from the first on.
Alternating(s) ==
    \A i \in 1..Len(s) : s[i].type = (IF i % 2 = 1 THEN "human" ELSE "ai")

\* The conversations of C4: the last turn is Human, and the earlier turns are
\* System turns and complete Human/Assistant exchanges.
C4_Conversation(msgs) ==
    /\ Len(msgs) >= 1
    /\ LastTurn(msgs).type = "human"
    /\ LET exchanges == SelectSeq(Earlier(msgs), IsNotSystem) IN
           Alternating(exchanges) /\ Len(exchanges) % 2 = 0

\* The history C4 states for such a conversation: in input order, one
\* (system_text, "OK\n") per System turn and one (human_text, assistant_text)
\* per exchange, placed where the exchange completes.
RECURSIVE C4_History(_, _)
C4_History(s, human) ==
    IF s = <<>> THEN <<>>
    ELSE LET m == Head(s) IN
         IF m.type = "system"
         THEN <<(<<m.content, "OK\n">>)>> \o C4_History(Tail(s), human)
         ELSE IF m.type = "human"
         THEN C4_History(Tail(s), m.content)
         ELSE <<(<<human, m.content>>)>> \o C4_History(Tail(s), human)

\* C4: for every conversation whose earlier turns are System turns and
\* complete Human/Assistant exchanges and whose last turn is Human, the
\* encoder succeeds with the last turn's text as prompt and the history of
\* C4_History.
C4_EncodesSystemTurns ==
    (Encoded /\ C4_Conversation(messages))
        => encRet = [kind |-> "ok",
                     prompt |-> LastTurn(messages).content,
                     history |-> C4_History(Earlier(messages), "")]

\* C5: every conversation in which a Human turn is immediately followed by
\* another Human turn, the last turn included, fails with OrderError.
C5_HumanHumanFails ==
    (Encoded /\ \E i \in 1..(Len(messages) - 1) :
                    /\ messages[i].type = "human"
                    /\ messages[i + 1].type = "human")
        => encRet.kind = "OrderError"

\* C6 as stated: every non-empty conversation whose last turn is not Human
\* fails with LastTurnError, and a successful result has a Human last turn
\* whose text is the prompt.
C6_LastTurnAsStated ==
    /\ (Encoded /\ Len(messages) >= 1 /\ LastTurn(messages).type /= "human")
           => encRet.kind = "LastTurnError"
    /\ (Encoded /\ encRet.kind = "ok")
           => /\ LastTurn(messages).type = "human"
              /\ encRet.prompt = LastTurn(messages).content

\* C6 as amended: every non-empty conversation whose last turn is not Human
\* fails: with LastTurnError when its earlier turns alternate Human,
\* Assistant from the first turn on, and with OrderError when they do not
\* (the earlier turns are walked before the last turn is looked at).  A
\* successful result has a Human last turn whose text is the prompt.
C6_LastTurn ==
    /\ (Encoded /\ Len(messages) >= 1 /\ LastTurn(messages).type /= "human")
           => encRet.kind = (IF Alternating(Earlier(messages))
                             THEN "LastTurnError" ELSE "OrderError")
    /\ (Encoded /\ encRet.kind = "ok")
           => /\ LastTurn(messages).type = "human"
              /\ encRet.prompt = LastTurn(messages).content

\* [Human("a"), Assistant("b")] was encoded and failed with LastTurnError.
C6_Witness ==
    /\ messages = <<Human("a"), Assistant("b")>>
    /\ encRet = [kind |-> "LastTurnError"]


(***************************************************************************)
(*               3.  THE FRAME READER OF acompletion_stream                *)
(*                                                                         *)
(* A body is a sequence of characters.  A JSON document is one character   *)
(* of the model ("{He}" stands for {"result":"He"}); the other characters  *)
(* are themselves.                                                         *)
(***************************************************************************)
MaxFrames == 2    \* frames in one event-stream body

CR == "\r"
LF == "\n"
SP == " "

JsonDocs   == {"{He}", "{llo}"}
Whitespace == {SP, CR, LF}

\* The result field of a JSON document.
ResultOf(doc) == IF doc = "{He}" THEN "He" ELSE "llo"

DataPrefix == <<"d", "a", "t", "a", ":">>
PrefixLen  == 5

\* The three frame terminators of line 249.
Terminators == {<<CR, CR>>, <<LF, LF>>, <<CR, LF, CR, LF>>}

\* A frame "data: <json>" or "data:<json>" followed by a terminator.
Frames ==
    {DataPrefix \o sp \o <<j>> \o t :
        sp \in {<<>>, <<SP>>}, j \in JsonDocs, t \in Terminators}

RECURSIVE BodiesOf(_)
BodiesOf(n) ==
    IF n = 0 THEN {<<>>}
    ELSE {f \o b : f \in Frames, b \in BodiesOf(n - 1)}

Bodies == UNION {BodiesOf(n) : n \in 1..MaxFrames}

\* A payload that json.loads rejects, and a comment (keep-alive) line.
BadDoc      == "{bad"
CommentLine == <<":", LF>>

\* The frames an event stream may hold: a data line with a valid or an
\* invalid payload, alone or after a comment line.
StreamFrames ==
    {c \o DataPrefix \o <<j>> \o t :
        c \in {<<>>, CommentLine}, j \in JsonDocs \cup {BadDoc},
        t \in Terminators}

RECURSIVE StreamBodiesOf(_)
StreamBodiesOf(n) ==
    IF n = 0 THEN {<<>>}
    ELSE {f \o b : f \in StreamFrames, b \in StreamBodiesOf(n - 1)}

StreamBodies == Bodies \cup UNION {StreamBodiesOf(n) : n \in 1..MaxFrames}

StartsWith(s, p) == Len(s) >= Len(p) /\ SubSeq(s, 1, Len(p)) = p
EndsWith(s, p)   == Len(s) >= Len(p) /\ SubSeq(s, Len(s) - Len(p) + 1, Len(s)) = p

\* "async for chunk in content" (line 247): iterating the response's
\* StreamReader delivers the body line by line, each line up to and
\* including its "\n", and the rest of the body at its end.
RECURSIVE Lines(_, _)
Lines(s, line) ==
    IF s = <<>>
    THEN IF line = <<>> THEN <<>> ELSE <<line>>
    ELSE IF Head(s) = LF
    THEN <<Append(line, LF)>> \o Lines(Tail(s), <<>>)
    ELSE Lines(Tail(s), Append(line, Head(s)))

\* data.endswith((b"\r\r", b"\n\n", b"\r\n\r\n")), line 249.
EndsWithTerminator(data) == \E t \in Terminators : EndsWith(data, t)

\* read(content), lines 245-253: the buffers it yields, from the i-th chunk
\* on with `data` accumulated so far.
RECURSIVE read(_, _, _)
read(content, i, data) ==
    IF i > Len(content)
    THEN IF data /= <<>> THEN <<data>> ELSE <<>>
    ELSE LET data1 == data \o content[i] IN
         IF EndsWithTerminator(data1)
         THEN <<data1>> \o read(content, i + 1, <<>>)
         ELSE read(content, i + 1, data1)

\* str.strip(): whitespace taken off both ends.
RECURSIVE lstrip(_)
lstrip(s) ==
    IF s /= <<>> /\ Head(s) \in Whitespace THEN lstrip(Tail(s)) ELSE s

RECURSIVE rstrip(_)
rstrip(s) ==
    IF s /= <<>> /\ s[Len(s)] \in Whitespace
    THEN rstrip(SubSeq(s, 1, Len(s) - 1)) ELSE s

strip(s) == rstrip(lstrip(s))

\* json.loads: the text must be exactly one JSON document.
json_valid(text) == Len(text) = 1 /\ text[1] \in JsonDocs
json_loads(text) == [result |-> ResultOf(text[1])]

\* The loop of lines 255-261 over the buffers read() yields, from the i-th
\* on: what it has yielded and the error that ended it, if any.
RECURSIVE events(_, _, _)
events(lines, i, yielded) ==
    IF i > Len(lines)
    THEN [yielded |-> yielded, raised |-> "none"]
    ELSE LET line_decoded == lines[i] IN
         IF ~StartsWith(line_decoded, DataPrefix)
         THEN events(lines, i + 1, yielded)
         ELSE LET event_data ==
                      strip(SubSeq(line_decoded, PrefixLen + 1,
                                   Len(line_decoded)))
              IN  IF json_valid(event_data)
                  THEN events(lines, i + 1,
                              Append(yielded, json_loads(event_data)))
                  ELSE [yielded |-> yielded, raised |-> "JSONDecodeError"]

\* The event-stream branch of acompletion_stream (lines 245-261) on what
\* iterating r.content delivers.
acompletion_stream_events(content) == events(read(content, 1, <<>>), 1, <<>>)

StreamInit ==
    /\ body \in StreamBodies
    /\ chunks = <<>>
    /\ sRet = NoRet
    /\ access_token = ""
    /\ access_token_expires = 0
    /\ clock = 1
    /\ pc = "idle"
    /\ now_timestamp = 0
    /\ grantCalls = 0
    /\ r_grant = NoGrantAnswer
    /\ ret = NoRet
    /\ calls = 0
    /\ issued = NoIssue
    /\ messages = <<>> /\ encRet = NoRet
    /\ dOp = "none" /\ dReq = NoRet /\ dResp = NoRet /\ dRet = NoRet
    /\ conn = "none" /\ cOp = "none" /\ cPhase = "idle" /\ cExit = "none"
    /\ cLeft = <<>> /\ cYielded = 0
    /\ kOp = "none" /\ kPc = "idle" /\ kArgs = NoRet /\ kNow = 0 /\ kLog = <<>>
    /\ kAnswer = NoRet /\ kLeft = <<>> /\ kRaised = "none" /\ kCalls = 0
    /\ eIn = NoRet /\ eSync = NoRet /\ eAsync = NoRet
    /\ mPrompt = "" /\ mHistory = <<>> /\ mMessages = <<>> /\ mDone = FALSE
    /\ streaming = FALSE /\ gAnswer = <<>> /\ gContent = NoRet /\ gDone = FALSE
    /\ aPc = <<>> /\ aNow = <<>> /\ aAnswer = NoGrantAnswer /\ aCalls = 0

\* The caller consumes the whole stream of one event-stream answer.
ConsumeStream ==
    /\ sRet = NoRet
    /\ chunks' = Lines(body, <<>>)
    /\ sRet' = acompletion_stream_events(Lines(body, <<>>))
    /\ UNCHANGED body
    /\ UNCHANGED notStream

StreamNext == ConsumeStream

SpecStream == StreamInit /\ [][StreamNext]_vars

(***************************************************************************)
(* Claims about the frame reader, checked under SpecStream.                *)
(***************************************************************************)
Consumed == sRet /= NoRet

IsJsonDoc(c) == c \in JsonDocs

\* The JSON documents of the frames of a body, in the order of the frames:
\* every frame of Bodies carries exactly one.
DocsOf(b) == SelectSeq(b, IsJsonDoc)

\* A body cut at every frame terminator: the frames as they arrive when each
\* comes in a read of its own.
RECURSIVE SplitFrames(_, _)
SplitFrames(s, frame) ==
    IF s = <<>>
    THEN IF frame = <<>> THEN <<>> ELSE <<frame>>
    ELSE LET f == Append(frame, Head(s)) IN
         IF \E t \in Terminators : EndsWith(f, t)
         THEN <<f>> \o SplitFrames(Tail(s), <<>>)
         ELSE SplitFrames(Tail(s), f)

\* C9: for every body of well-formed frames the stream ends without error
\* and yields one element per frame, the frame's decoded JSON, in the order
\* of the frames; so the result fields of the elements, in order, are the
\* result fields of the frames.
C9_OneEventPerFrame ==
    (Consumed /\ body \in Bodies) =>
        /\ sRet.raised = "none"
        /\ sRet.yielded =
               [i \in 1..Len(DocsOf(body)) |->
                    [result |-> ResultOf(DocsOf(body)[i])]]

\* C10: what the decoder yields depends on the body alone: it is what it
\* yields when every frame arrives in a read of its own, and the buffers
\* flushed are the frames of the body, one for each terminator in it.
C10_ReadBoundaryIndependent ==
    Consumed =>
        /\ read(chunks, 1, <<>>) = SplitFrames(body, <<>>)
        /\ sRet = acompletion_stream_events(SplitFrames(body, <<>>))

IsPayload(c) == c \in JsonDocs \cup {BadDoc}

\* The payloads of the data lines of a body, in the order of the frames.
PayloadsOf(b) == SelectSeq(b, IsPayload)

\* A buffer cut into its lines, at every "\r" and "\n".
RECURSIVE SplitLines(_, _)
SplitLines(s, line) ==
    IF s = <<>>
    THEN IF line = <<>> THEN <<>> ELSE <<line>>
    ELSE IF Head(s) \in {CR, LF}
    THEN <<line>> \o SplitLines(Tail(s), <<>>)
    ELSE SplitLines(Tail(s), Append(line, Head(s)))

IsDataLine(line) == StartsWith(line, DataPrefix)

\* The element of each line of the frames that begins with "data:": the
\* prefix and the surrounding whitespace stripped, the rest parsed.
RECURSIVE DataLineEvents(_)
DataLineEvents(frames) ==
    IF frames = <<>> THEN <<>>
    ELSE LET ls == SelectSeq(SplitLines(Head(frames), <<>>), IsDataLine) IN
         [i \in 1..Len(ls) |->
              json_loads(strip(SubSeq(ls[i], PrefixLen + 1, Len(ls[i]))))]
         \o DataLineEvents(Tail(frames))

\* C11: within every flushed frame each line that begins with "data:" is
\* decoded and emitted as one element, and the lines that do not are
\* discarded without touching the data lines of the frame: a frame whose
\* first line is a comment and whose second is a data line yields the data
\* line's event.  (Bodies whose payloads are all valid JSON.)
C11_DataLinesOfFrame ==
    (Consumed /\ \A i \in 1..Len(body) : body[i] /= BadDoc)
        => /\ sRet.raised = "none"
           /\ sRet.yielded = DataLineEvents(read(chunks, 1, <<>>))

\* C12: if the payload of a frame is not valid JSON the stream fails with a
\* decode error when that frame is reached: the elements of all frames
\* before it have been yielded, in order, the frame is not skipped, and
\* nothing is yielded after it.
C12_FailFastAtBadFrame ==
    (Consumed /\ \E i \in 1..Len(body) : body[i] = BadDoc)
        => LET docs == PayloadsOf(body)
               k == CHOOSE i \in 1..Len(docs) :
                        /\ docs[i] = BadDoc
                        /\ \A j \in 1..(i - 1) : docs[j] /= BadDoc
           IN  /\ sRet.raised = "JSONDecodeError"
               /\ sRet.yielded =
                      [i \in 1..(k - 1) |-> [result |-> ResultOf(docs[i])]]

(***************************************************************************)
(*                4.  THE COMPLETION CALLS OF WenxinClient                 *)
(***************************************************************************)
Models    == {"ernie-bot", "ernie-bot-turbo"}
Prompts   == {"c"}
Histories == {<<>>, <<(<<"a", "b">>)>>}

\* completions_url (lines 43-48).
completions_url(model) ==
    IF model \in {"eb-instant", "ernie-bot-turbo"}
    THEN "eb-instant" ELSE "completions"

\* construct_message with the loop of lines 99-101 left out.
construct_message_prompt_only(prompt, history, i) ==
    <<[role |-> "user", content |-> prompt]>>

\* construct_message (lines 96-103): the loop from the i-th pair on.
RECURSIVE construct_message_from(_, _, _)
construct_message_from(prompt, history, i) ==
    IF i > Len(history)
    THEN <<[role |-> "user", content |-> prompt]>>
    ELSE <<[role |-> "user", content |-> history[i][1]],
           [role |-> "assistant", content |-> history[i][2]]>>
         \o construct_message_from(prompt, history, i + 1)

construct_message(prompt, history) == construct_message_from(prompt, history, 1)

\* The request of a call: URL and JSON body (lines 116-118, 185-187).
Request(model, prompt, history, stream) ==
    [url |-> completions_url(model),
     stream |-> stream,
     messages |-> construct_message(prompt, history)]

ErrorCodes == {0, 17}

\* JSON payloads of the chat endpoint: result, error_code and error_msg are
\* each present or not.
Payloads ==
    {[result |-> "hi"]}
    \cup {[result |-> "hi", error_code |-> c] : c \in ErrorCodes}
    \cup {[error_code |-> c] : c \in ErrorCodes}
    \cup {[error_code |-> c, error_msg |-> "quota"] : c \in ErrorCodes}
    \cup {[result |-> "hi", error_code |-> c, error_msg |-> "quota"] :
              c \in ErrorCodes}

JsonType         == "application/json"
EventStreamTypes == {"text/event-stream", "text/event-stream;charset=UTF-8"}

\* What the POST can come back with when stream=False was asked.
JsonAnswers ==
    {[kind |-> "unreachable"]}
    \cup {[kind |-> "http", status |-> 500]}
    \cup {[kind |-> "http", status |-> 200, ctype |-> JsonType, json |-> FALSE]}
    \cup {[kind |-> "http", status |-> 200, ctype |-> JsonType, json |-> TRUE,
           payload |-> p] : p \in Payloads}

\* ... and when stream=True was asked: the endpoint may also answer with an
\* event stream.
StreamAnswers ==
    JsonAnswers
    \cup {[kind |-> "http", status |-> 200, ctype |-> c, json |-> FALSE] :
              c \in EventStreamTypes}

\* Content-Type .startswith("text/event-stream"), lines 197 and 236.
IsEventStream(ctype) == ctype \in EventStreamTypes

NoError == [code |-> 0, msg |-> ""]

\* What a call raised, what it returned (<<>> is None), what its own
\* statements yielded, and the decoder it handed the body to ("none" if it
\* did not).
Outcome(raised, error, returned, yielded, decoder) ==
    [raised |-> raised, error |-> error, returned |-> returned,
     yielded |-> yielded, decoder |-> decoder]

Failed(e) == Outcome(e, NoError, <<>>, <<>>, "none")

\* response.get("error_code", 0) and response.get("error_msg", ...).
error_code_of(response) ==
    IF "error_code" \in DOMAIN response THEN response.error_code ELSE 0

error_msg_of(response) ==
    IF "error_msg" \in DOMAIN response THEN response.error_msg
    ELSE "Unknown error"

ApiError(response) ==
    Outcome("ApiError",
            [code |-> error_code_of(response), msg |-> error_msg_of(response)],
            <<>>, <<>>, "none")

\* completion without the test of error_code (lines 128-132 left out).
completion_unchecked(answer) ==
    IF answer.kind = "unreachable" THEN Failed("ConnectionError")
    ELSE IF answer.status >= 400 THEN Failed("HTTPError")
    ELSE IF ~answer.json THEN Failed("JSONDecodeError")
    ELSE Outcome("none", NoError, <<answer.payload>>, <<>>, "none")

\* completion from the answer on (lines 126-134).
completion_outcome(answer) ==
    IF answer.kind = "unreachable" THEN Failed("ConnectionError")
    ELSE IF answer.status >= 400 THEN Failed("HTTPError")
    ELSE IF ~answer.json THEN Failed("JSONDecodeError")
    ELSE LET response == answer.payload IN
         IF error_code_of(response) /= 0
         THEN ApiError(response)
         ELSE Outcome("none", NoError, <<response>>, <<>>, "none")

\* acompletion from the answer on (lines 162-171).
acompletion_outcome(answer) ==
    IF answer.kind = "unreachable" THEN Failed("ConnectionError")
    ELSE IF answer.status >= 400 THEN Failed("HTTPError")
    ELSE IF ~answer.json THEN Failed("JSONDecodeError")
    ELSE LET response == answer.payload IN
         IF error_code_of(response) /= 0
         THEN ApiError(response)
         ELSE Outcome("none", NoError, <<response>>, <<>>, "none")

\* completion_stream from the answer on (lines 196-209), up to the point
\* where SSEClient takes the body over.  The function is a generator:
\* "return response" (line 204) ends it with nothing yielded.
completion_stream_outcome(answer) ==
    IF answer.kind = "unreachable" THEN Failed("ConnectionError")
    ELSE IF answer.status >= 400 THEN Failed("HTTPError")
    ELSE IF ~IsEventStream(answer.ctype)
    THEN IF ~answer.json THEN Failed("JSONDecodeError")
         ELSE LET response == answer.payload IN
              IF error_code_of(response) /= 0
              THEN ApiError(response)
              ELSE Outcome("none", NoError, <<response>>, <<>>, "none")
    ELSE Outcome("none", NoError, <<>>, <<>>, "SSEClient")

\* acompletion_stream from the answer on (lines 235-261).  After "yield
\* response" (line 243) the function goes on to read(r.content) of line 255,
\* on a body that r.json() has read to its end; on an event stream the
\* outcome is the point where read() takes the body over.
acompletion_stream_outcome(answer) ==
    IF answer.kind = "unreachable" THEN Failed("ConnectionError")
    ELSE IF answer.status >= 400 THEN Failed("HTTPError")
    ELSE IF ~IsEventStream(answer.ctype)
    THEN IF ~answer.json THEN Failed("JSONDecodeError")
         ELSE LET response == answer.payload IN
              IF error_code_of(response) /= 0
              THEN ApiError(response)
              ELSE LET rest == acompletion_stream_events(Lines(<<>>, <<>>)) IN
                   Outcome(rest.raised, NoError, <<>>,
                           <<response>> \o rest.yielded, "read")
    ELSE Outcome("none", NoError, <<>>, <<>>, "read")

DispInit ==
    /\ dOp = "none"
    /\ dReq = NoRet
    /\ dResp = NoRet
    /\ dRet = NoRet
    /\ access_token = ""
    /\ access_token_expires = 0
    /\ clock = 1
    /\ pc = "idle"
    /\ now_timestamp = 0
    /\ grantCalls = 0
    /\ r_grant = NoGrantAnswer
    /\ ret = NoRet
    /\ calls = 0
    /\ issued = NoIssue
    /\ messages = <<>> /\ encRet = NoRet
    /\ body = <<>> /\ chunks = <<>> /\ sRet = NoRet
    /\ conn = "none" /\ cOp = "none" /\ cPhase = "idle" /\ cExit = "none"
    /\ cLeft = <<>> /\ cYielded = 0
    /\ kOp = "none" /\ kPc = "idle" /\ kArgs = NoRet /\ kNow = 0 /\ kLog = <<>>
    /\ kAnswer = NoRet /\ kLeft = <<>> /\ kRaised = "none" /\ kCalls = 0
    /\ eIn = NoRet /\ eSync = NoRet /\ eAsync = NoRet
    /\ mPrompt = "" /\ mHistory = <<>> /\ mMessages = <<>> /\ mDone = FALSE
    /\ streaming = FALSE /\ gAnswer = <<>> /\ gContent = NoRet /\ gDone = FALSE
    /\ aPc = <<>> /\ aNow = <<>> /\ aAnswer = NoGrantAnswer /\ aCalls = 0

completion ==
    /\ dOp = "none"
    /\ dOp' = "completion"
    /\ \E model \in Models, prompt \in Prompts, history \in Histories :
           dReq' = Request(model, prompt, history, FALSE)
    /\ \E answer \in JsonAnswers :
           /\ dResp' = answer
           /\ dRet' = completion_outcome(answer)
    /\ UNCHANGED notDisp

acompletion ==
    /\ dOp = "none"
    /\ dOp' = "acompletion"
    /\ \E model \in Models, prompt \in Prompts, history \in Histories :
           dReq' = Request(model, prompt, history, FALSE)
    /\ \E answer \in JsonAnswers :
           /\ dResp' = answer
           /\ dRet' = acompletion_outcome(answer)
    /\ UNCHANGED notDisp

\* completion_stream, run by a caller that iterates its result.
completion_stream ==
    /\ dOp = "none"
    /\ dOp' = "completion_stream"
    /\ \E model \in Models, prompt \in Prompts, history \in Histories :
           dReq' = Request(model, prompt, history, TRUE)
    /\ \E answer \in StreamAnswers :
           /\ dResp' = answer
           /\ dRet' = completion_stream_outcome(answer)
    /\ UNCHANGED notDisp

\* acompletion_stream, run by a caller that iterates its result.
acompletion_stream ==
    /\ dOp = "none"
    /\ dOp' = "acompletion_stream"
    /\ \E model \in Models, prompt \in Prompts, history \in Histories :
           dReq' = Request(model, prompt, history, TRUE)
    /\ \E answer \in StreamAnswers :
           /\ dResp' = answer
           /\ dRet' = acompletion_stream_outcome(answer)
    /\ UNCHANGED notDisp

DispNext ==
    \/ completion
    \/ acompletion
    \/ completion_stream
    \/ acompletion_stream

SpecDispatch == DispInit /\ [][DispNext]_vars

(***************************************************************************)
(* Claims about the completion calls, checked under SpecDispatch.          *)
(***************************************************************************)
StreamOps == {"completion_stream", "acompletion_stream"}

\* The call parsed the whole body of the answer as one JSON payload: every
\* answered non-streaming call, and a streaming call whose answer is not an
\* event stream.
ParsedWholeBody ==
    /\ dOp /= "none"
    /\ dResp.kind = "http"
    /\ dResp.status = 200
    /\ dResp.json

HasError(payload) ==
    "error_code" \in DOMAIN payload /\ payload.error_code /= 0

\* C7: where a whole JSON body is parsed, a payload whose error_code is
\* present and not 0 makes the call fail with an error that carries that code
\* and the payload's error_msg, and the payload is neither returned nor
\* yielded; a payload whose error_code is absent or 0 is handed back
\* unchanged (returned by completion, acompletion and completion_stream,
\* yielded by acompletion_stream) and the call does not fail.
C7_ApiErrorPropagation ==
    ParsedWholeBody =>
        IF HasError(dResp.payload)
        THEN /\ dRet.raised = "ApiError"
             /\ dRet.error.code = dResp.payload.error_code
             /\ ("error_msg" \in DOMAIN dResp.payload
                    => dRet.error.msg = dResp.payload.error_msg)
             /\ dRet.returned = <<>>
             /\ dRet.yielded = <<>>
        ELSE /\ dRet.raised = "none"
             /\ IF dOp = "acompletion_stream"
                THEN dRet.yielded = <<dResp.payload>> /\ dRet.returned = <<>>
                ELSE dRet.returned = <<dResp.payload>> /\ dRet.yielded = <<>>

\* {"error_code": 17, "error_msg": "quota"} made completion fail with
\* error 17, "quota".
C7_Witness ==
    /\ dOp = "completion"
    /\ dResp.kind = "http"
    /\ dResp.status = 200
    /\ dResp.json
    /\ dResp.payload = [error_code |-> 17, error_msg |-> "quota"]
    /\ dRet.raised = "ApiError"
    /\ dRet.error = [code |-> 17, msg |-> "quota"]

\* C8: when streaming was asked for, the answer is not an event stream and
\* its payload has no error, the caller that consumes the result obtains
\* exactly that one payload and the stream decoder is not invoked, in
\* completion_stream and in acompletion_stream.
C8_NonEventStreamFallback ==
    (ParsedWholeBody /\ dOp \in StreamOps /\ ~HasError(dResp.payload))
        => /\ dRet.raised = "none"
           /\ dRet.yielded = <<dResp.payload>>
           /\ dRet.decoder = "none"

(***************************************************************************)
(*            5.  THE HTTP CONNECTION OF A STREAMING CALL                  *)
(*                                                                         *)
(* completion_stream posts with requests.post(..., stream=True) and keeps  *)
(* the response in the local r (lines 189-195); nothing in the function    *)
(* closes r.  acompletion_stream posts inside "async with" (lines          *)
(* 229-234).  In both libraries reading the body to its end releases the   *)
(* connection.                                                             *)
(***************************************************************************)
\* The events an event-stream body delivers, by their payload.
RECURSIVE EventSeqsOf(_)
EventSeqsOf(n) ==
    IF n = 0 THEN {<<>>}
    ELSE EventSeqsOf(n - 1)
         \cup {e \o <<j>> : e \in {x \in EventSeqsOf(n - 1) : Len(x) = n - 1},
                            j \in JsonDocs \cup {BadDoc}}

EventSeqs == EventSeqsOf(MaxEvents)

ConnInit ==
    /\ conn = "none"
    /\ cOp = "none"
    /\ cPhase = "idle"
    /\ cExit = "none"
    /\ cLeft = <<>>
    /\ cYielded = 0
    /\ access_token = ""
    /\ access_token_expires = 0
    /\ clock = 1
    /\ pc = "idle"
    /\ now_timestamp = 0
    /\ grantCalls = 0
    /\ r_grant = NoGrantAnswer
    /\ ret = NoRet
    /\ calls = 0
    /\ issued = NoIssue
    /\ messages = <<>> /\ encRet = NoRet
    /\ dOp = "none" /\ dReq = NoRet /\ dResp = NoRet /\ dRet = NoRet
    /\ body = <<>> /\ chunks = <<>> /\ sRet = NoRet
    /\ kOp = "none" /\ kPc = "idle" /\ kArgs = NoRet /\ kNow = 0 /\ kLog = <<>>
    /\ kAnswer = NoRet /\ kLeft = <<>> /\ kRaised = "none" /\ kCalls = 0
    /\ eIn = NoRet /\ eSync = NoRet /\ eAsync = NoRet
    /\ mPrompt = "" /\ mHistory = <<>> /\ mMessages = <<>> /\ mDone = FALSE
    /\ streaming = FALSE /\ gAnswer = <<>> /\ gContent = NoRet /\ gDone = FALSE
    /\ aPc = <<>> /\ aNow = <<>> /\ aAnswer = NoGrantAnswer /\ aCalls = 0

\* The generator has ended with the error or the normal end e.
Ended(e) == cPhase' = "ended" /\ cExit' = e

\* The first next() on completion_stream: lines 185-204.  An answer that is
\* not an event stream is read to its end by r.json() (line 198); after
\* raise_for_status (line 196) the body has not been read and r is not closed.
completion_stream_post ==
    /\ cPhase = "idle"
    /\ cOp' = "completion_stream"
    /\ cYielded' = 0
    /\ \E answer \in StreamAnswers, evs \in EventSeqs :
           LET out == completion_stream_outcome(answer) IN
           IF answer.kind = "unreachable"
           THEN Ended(out.raised) /\ conn' = "none" /\ cLeft' = <<>>
           ELSE IF answer.status >= 400
           THEN Ended(out.raised) /\ conn' = "open" /\ cLeft' = <<>>
           ELSE IF ~IsEventStream(answer.ctype)
           THEN /\ Ended(IF out.raised = "none" THEN "returned" ELSE out.raised)
                /\ conn' = "released"
                /\ cLeft' = <<>>
           ELSE /\ cPhase' = "reading"
                /\ cExit' = "none"
                /\ conn' = "open"
                /\ cLeft' = evs
    /\ UNCHANGED notConn

\* One turn of the loop of lines 207-209.  The end of the body releases the
\* connection; json.loads raising (line 208) leaves r as it is: open while
\* events are left unread, and open or released after the last event,
\* depending on whether the transport has already seen the end of the body.
completion_stream_event ==
    /\ cOp = "completion_stream"
    /\ cPhase = "reading"
    /\ UNCHANGED cOp
    /\ IF cLeft = <<>>
       THEN Ended("exhausted") /\ conn' = "released"
                /\ UNCHANGED <<cLeft, cYielded>>
       ELSE IF ~json_valid(<<Head(cLeft)>>)
       THEN /\ Ended("JSONDecodeError")
            /\ conn' \in (IF Len(cLeft) > 1 THEN {"open"}
                          ELSE {"open", "released"})
            /\ UNCHANGED <<cLeft, cYielded>>
       ELSE /\ cPhase' = "suspended"
            /\ cYielded' = cYielded + 1
            /\ cLeft' = Tail(cLeft)
            /\ UNCHANGED <<conn, cExit>>
    /\ UNCHANGED notConn

\* The first anext() on acompletion_stream: lines 228-243.  Every raise
\* leaves the two "async with" blocks, which release the connection; at the
\* yield of line 243 the body has been read to its end by r.json().
acompletion_stream_post ==
    /\ cPhase = "idle"
    /\ cOp' = "acompletion_stream"
    /\ \E answer \in StreamAnswers, evs \in EventSeqs :
           LET out == acompletion_stream_outcome(answer) IN
           IF answer.kind = "unreachable"
           THEN Ended(out.raised) /\ conn' = "none" /\ cLeft' = <<>>
                    /\ cYielded' = 0
           ELSE IF answer.status >= 400
           THEN Ended(out.raised) /\ conn' = "released" /\ cLeft' = <<>>
                    /\ cYielded' = 0
           ELSE IF ~IsEventStream(answer.ctype)
           THEN IF out.yielded = <<>>
                THEN Ended(out.raised) /\ conn' = "released" /\ cLeft' = <<>>
                         /\ cYielded' = 0
                ELSE /\ cPhase' = "suspended"
                     /\ cExit' = "none"
                     /\ conn' = "released"
                     /\ cLeft' = <<>>
                     /\ cYielded' = 1
           ELSE /\ cPhase' = "reading"
                /\ cExit' = "none"
                /\ conn' = "open"
                /\ cLeft' = evs
                /\ cYielded' = 0
    /\ UNCHANGED notConn

\* One turn of the loop of lines 255-261, inside the "async with" blocks.
acompletion_stream_event ==
    /\ cOp = "acompletion_stream"
    /\ cPhase = "reading"
    /\ UNCHANGED cOp
    /\ IF cLeft = <<>>
       THEN Ended("exhausted") /\ conn' = "released"
                /\ UNCHANGED <<cLeft, cYielded>>
       ELSE IF ~json_valid(<<Head(cLeft)>>)
       THEN Ended("JSONDecodeError") /\ conn' = "released"
                /\ UNCHANGED <<cLeft, cYielded>>
       ELSE /\ cPhase' = "suspended"
            /\ cYielded' = cYielded + 1
            /\ cLeft' = Tail(cLeft)
            /\ UNCHANGED <<conn, cExit>>
    /\ UNCHANGED notConn

\* The caller of Wenxin.stream asks for the next element.
Resume ==
    /\ cPhase = "suspended"
    /\ cPhase' = "reading"
    /\ UNCHANGED <<conn, cOp, cExit, cLeft, cYielded>>
    /\ UNCHANGED notConn

\* The caller stops consuming: the generator stays suspended at its yield
\* (line 209, 243 or 261) and no statement of either function runs.
Abandon ==
    /\ cPhase = "suspended"
    /\ cPhase' = "abandoned"
    /\ cExit' = "abandoned"
    /\ UNCHANGED <<conn, cOp, cLeft, cYielded>>
    /\ UNCHANGED notConn

\* The interpreter finalizes the generator and r, if and when it collects
\* them: the only thing that closes a connection left open.
Finalize ==
    /\ cPhase \in {"ended", "abandoned"}
    /\ conn = "open"
    /\ conn' = "released"
    /\ UNCHANGED <<cOp, cPhase, cExit, cLeft, cYielded>>
    /\ UNCHANGED notConn

ConnNext ==
    \/ completion_stream_post
    \/ completion_stream_event
    \/ acompletion_stream_post
    \/ acompletion_stream_event
    \/ Resume
    \/ Abandon
    \/ Finalize

SpecConn == ConnInit /\ [][ConnNext]_vars

(***************************************************************************)
(* Claims about the connection, checked under SpecConn.                    *)
(***************************************************************************)
\* C13: a streaming call that has ended (exhausted, failed on decoding,
\* failed on the HTTP status or on an application error) or that its caller
\* has abandoned does not leave its connection open, in completion_stream
\* and in acompletion_stream.
C13_ReleasedOnEveryExit ==
    cPhase \in {"ended", "abandoned"} => conn /= "open"

(***************************************************************************)
(*          6.  ONE COMPLETION CALL, FROM get_token TO ITS END             *)
(*                                                                         *)
(* The four calls evaluate self.grant_token() / await                      *)
(* self.async_grant_token() as an argument of the POST (lines 122, 158,    *)
(* 191, 232), so the token request, if any, goes out before the POST.      *)
(* kLog holds the requests of the call in progress.                        *)
(***************************************************************************)
CallOps  == {"completion", "acompletion", "completion_stream",
             "acompletion_stream"}
AsyncOps == {"acompletion", "acompletion_stream"}

CallArgs ==
    {[model |-> m, prompt |-> p, history |-> h] :
         m \in Models, p \in Prompts, h \in Histories}

\* requests.get / session.get on WENXIN_TOKEN_URL (lines 56-64, 79-88).
GrantRequest == [to |-> "token"]

\* The POST with the token put into the JSON body as well.
PostRequestTokenInBody(op, args, token) ==
    [to     |-> "chat",
     url    |-> completions_url(args.model),
     params |-> [access_token |-> token],
     json   |-> [messages |-> construct_message(args.prompt, args.history),
                 stream |-> op \in {"completion_stream", "acompletion_stream"},
                 access_token |-> token]]

\* requests.post / session.post (lines 120-125, 156-161, 189-195, 230-234):
\* the token in the query string, messages and stream in the JSON body.
PostRequest(op, args, token) ==
    [to     |-> "chat",
     url    |-> completions_url(args.model),
     params |-> [access_token |-> token],
     json   |-> [messages |-> construct_message(args.prompt, args.history),
                 stream |-> op \in {"completion_stream", "acompletion_stream"}]]

\* The test of line 53 or of line 74, by the variant the call uses.
call_cached(op, tok, now, expires) ==
    IF op \in AsyncOps THEN async_grant_token_cached(tok, now, expires)
    ELSE grant_token_cached(tok, now, expires)

call_store(op, tok, expires, now, answer) ==
    IF op \in AsyncOps THEN async_StoreGrant(tok, expires, now, answer)
    ELSE StoreGrant(tok, expires, now, answer)

\* What the call does with the answer of the POST.
call_outcome(op, answer) ==
    CASE op = "completion"         -> completion_outcome(answer)
      [] op = "acompletion"        -> acompletion_outcome(answer)
      [] op = "completion_stream"  -> completion_stream_outcome(answer)
      [] op = "acompletion_stream" -> acompletion_stream_outcome(answer)

call_answers(op) ==
    IF op \in {"completion_stream", "acompletion_stream"}
    THEN StreamAnswers ELSE JsonAnswers

\* The bodies of an event-stream answer, each event one that decodes or one
\* that does not.
CallEventSeqs ==
    {e \in EventSeqs : \A i \in DOMAIN e : e[i] \in {"{He}", BadDoc}}

CallInit ==
    /\ kOp = "none"
    /\ kPc = "idle"
    /\ kArgs = NoRet
    /\ kNow = 0
    /\ kLog = <<>>
    /\ kAnswer = NoRet
    /\ kLeft = <<>>
    /\ kRaised = "none"
    /\ kCalls = 0
    /\ access_token = ""
    /\ access_token_expires = 0
    /\ clock = 1
    /\ pc = "idle"
    /\ now_timestamp = 0
    /\ grantCalls = 0
    /\ r_grant = NoGrantAnswer
    /\ ret = NoRet
    /\ calls = 0
    /\ issued = NoIssue
    /\ messages = <<>> /\ encRet = NoRet
    /\ dOp = "none" /\ dReq = NoRet /\ dResp = NoRet /\ dRet = NoRet
    /\ body = <<>> /\ chunks = <<>> /\ sRet = NoRet
    /\ conn = "none" /\ cOp = "none" /\ cPhase = "idle" /\ cExit = "none"
    /\ cLeft = <<>> /\ cYielded = 0
    /\ eIn = NoRet /\ eSync = NoRet /\ eAsync = NoRet
    /\ mPrompt = "" /\ mHistory = <<>> /\ mMessages = <<>> /\ mDone = FALSE
    /\ streaming = FALSE /\ gAnswer = <<>> /\ gContent = NoRet /\ gDone = FALSE
    /\ aPc = <<>> /\ aNow = <<>> /\ aAnswer = NoGrantAnswer /\ aCalls = 0

\* The call up to its first request: the token request on a cache miss
\* (lines 51-64), the POST on a cache hit (lines 51-54, then 120-125).
Call ==
    /\ kPc = "idle"
    /\ kCalls < MaxCompletions
    /\ kCalls' = kCalls + 1
    /\ kNow' = clock
    /\ kAnswer' = NoRet
    /\ kLeft' = <<>>
    /\ kRaised' = "none"
    /\ \E op \in CallOps, args \in CallArgs :
         /\ kOp' = op
         /\ kArgs' = args
         /\ IF call_cached(op, access_token, clock, access_token_expires)
            THEN /\ kLog' = <<PostRequest(op, args, access_token)>>
                 /\ kPc' = "post_wait"
            ELSE /\ kLog' = <<GrantRequest>>
                 /\ kPc' = "grant_wait"
    /\ UNCHANGED <<access_token, access_token_expires, clock>>
    /\ UNCHANGED <<pc, now_timestamp, grantCalls, r_grant, ret, calls, issued>>
    /\ UNCHANGED notCall

\* The answer of the token endpoint (lines 65-69, 89-94): the call ends with
\* the error, or get_token returns and the POST goes out.
CallGrantAnswer ==
    /\ kPc = "grant_wait"
    /\ \E answer \in GrantAnswers :
         LET s == call_store(kOp, access_token, access_token_expires, kNow,
                             answer) IN
         /\ kAnswer' = answer
         /\ access_token' = s.token
         /\ access_token_expires' = s.expires
         /\ IF s.ret.kind = "ok"
            THEN /\ kLog' = Append(kLog, PostRequest(kOp, kArgs, s.ret.token))
                 /\ kPc' = "post_wait"
                 /\ kRaised' = "none"
            ELSE /\ kLog' = kLog
                 /\ kPc' = "done"
                 /\ kRaised' = s.ret.error
    /\ UNCHANGED <<kOp, kArgs, kNow, kLeft, kCalls, clock>>
    /\ UNCHANGED <<pc, now_timestamp, grantCalls, r_grant, ret, calls, issued>>
    /\ UNCHANGED notCall

\* The answer of the chat endpoint (lines 126-134, 162-171, 196-206,
\* 235-255).
CallPostAnswer ==
    /\ kPc = "post_wait"
    /\ \E answer \in call_answers(kOp) :
         LET out == call_outcome(kOp, answer) IN
         /\ kAnswer' = answer
         /\ IF out.raised = "none" /\ out.decoder /= "none" /\ out.yielded = <<>>
            THEN kPc' = "streaming" /\ kLeft' \in CallEventSeqs
                     /\ kRaised' = "none"
            ELSE kPc' = "done" /\ kLeft' = <<>> /\ kRaised' = out.raised
    /\ UNCHANGED <<kOp, kArgs, kNow, kLog, kCalls>>
    /\ UNCHANGED tokenVars
    /\ UNCHANGED notCall

\* One turn of the loop over the events (lines 207-209, 255-261).
CallNextEvent ==
    /\ kPc = "streaming"
    /\ IF kLeft = <<>>
       THEN kPc' = "done" /\ kRaised' = "none" /\ kLeft' = kLeft
       ELSE IF ~json_valid(<<Head(kLeft)>>)
       THEN kPc' = "done" /\ kRaised' = "JSONDecodeError" /\ kLeft' = kLeft
       ELSE kPc' = kPc /\ kRaised' = kRaised /\ kLeft' = Tail(kLeft)
    /\ UNCHANGED <<kOp, kArgs, kNow, kLog, kAnswer, kCalls>>
    /\ UNCHANGED tokenVars
    /\ UNCHANGED notCall

\* The call has ended; the client is free for the next one.
CallReturn ==
    /\ kPc = "done"
    /\ kPc' = "idle"
    /\ kOp' = "none"
    /\ kArgs' = NoRet
    /\ kLog' = <<>>
    /\ kAnswer' = NoRet
    /\ kLeft' = <<>>
    /\ kRaised' = "none"
    /\ UNCHANGED <<kNow, kCalls>>
    /\ UNCHANGED tokenVars
    /\ UNCHANGED notCall

CallNext ==
    \/ Tick
    \/ Call
    \/ CallGrantAnswer
    \/ CallPostAnswer
    \/ CallNextEvent
    \/ CallReturn

SpecCall == CallInit /\ [][CallNext]_vars

(***************************************************************************)
(* Claims about one completion call, checked under SpecCall.               *)
(***************************************************************************)
\* The requests of a log that went to the token endpoint / chat endpoint.
RequestsTo(log, to) == {i \in DOMAIN log : log[i].to = to}

\* An answer of the token endpoint from which get_token cannot return a
\* token: no answer, an HTTP error status, a body that is not JSON or that
\* lacks access_token or expires_in.
GrantAnswerFails(answer) ==
    \/ answer.kind = "unreachable"
    \/ answer.status >= 400
    \/ ~answer.json
    \/ ~({"access_token", "expires_in"} \subseteq DOMAIN answer.body)

\* An answer of the chat endpoint that is a failure: no answer, an HTTP error
\* status, or a whole-body answer that is not JSON or carries an error code.
PostAnswerFails(answer) ==
    \/ answer.kind = "unreachable"
    \/ answer.status >= 400
    \/ /\ ~IsEventStream(answer.ctype)
       /\ (~answer.json \/ HasError(answer.payload))

\* A step in which the call in progress meets a failure: the answer it
\* receives is a failure, or the next event of the stream does not decode.
MeetsFailure ==
    \/ kPc = "grant_wait" /\ kPc' /= "grant_wait" /\ GrantAnswerFails(kAnswer')
    \/ kPc = "post_wait" /\ kPc' /= "post_wait" /\ PostAnswerFails(kAnswer')
    \/ /\ kPc = "streaming"
       /\ clock' = clock
       /\ kLeft /= <<>>
       /\ Head(kLeft) = BadDoc

\* C14: one call sends at most one request to the token endpoint and at most
\* one POST to the chat endpoint; a step in which it meets a failure ends it
\* with an error raised and sends nothing, and a call that has ended sends
\* nothing more.
C14_NoRetry ==
    [][ /\ Cardinality(RequestsTo(kLog', "token")) <= 1
        /\ Cardinality(RequestsTo(kLog', "chat")) <= 1
        /\ MeetsFailure
              => (kPc' = "done" /\ kRaised' /= "none" /\ kLog' = kLog)
        /\ kPc = "done" => Len(kLog') <= Len(kLog) ]_vars

\* A call refreshed the token, sent its POST, got HTTP 500 and ended with
\* HTTPError, two requests in all.
C14_Witness ==
    /\ kPc = "done"
    /\ kRaised = "HTTPError"
    /\ Len(kLog) = 2
    /\ kLog[1] = GrantRequest
    /\ kLog[2].to = "chat"
    /\ kAnswer.status = 500

\* A step in which the call in progress sends its POST.
SendsPost == RequestsTo(kLog, "chat") = {} /\ RequestsTo(kLog', "chat") /= {}

\* C15: the POST of a call is its last request, after the token request if
\* there was one.  It is sent either at once, if at the time of the call the
\* cached token is non-empty and not expired, and then carries that cached
\* token; or on a successful answer of the token endpoint, and then carries
\* the token of that answer.  The token is the access_token query parameter
\* and is no part of the JSON body.  On a failed answer of the token endpoint
\* no POST is sent.
C15_TokenBeforePost ==
    [][ /\ SendsPost =>
             LET post == kLog'[Len(kLog')] IN
             /\ post.to = "chat"
             /\ IF kPc = "idle"
                THEN /\ access_token /= ""
                     /\ clock < access_token_expires
                     /\ post.params.access_token = access_token
                     /\ kLog' = <<post>>
                ELSE /\ kPc = "grant_wait"
                     /\ ~GrantAnswerFails(kAnswer')
                     /\ post.params.access_token = kAnswer'.body.access_token
                     /\ kLog' = <<GrantRequest, post>>
             /\ DOMAIN post.params = {"access_token"}
             /\ "access_token" \notin DOMAIN post.json
             /\ \A i \in DOMAIN post.json.messages :
                    post.json.messages[i].content /= post.params.access_token
        /\ (kPc = "grant_wait" /\ kPc' /= "grant_wait"
                /\ GrantAnswerFails(kAnswer'))
              => (RequestsTo(kLog', "chat") = {} /\ kPc' = "done") ]_vars

\* The second call of a client found the token of the first one still valid
\* and sent its POST with it, without a token request.
C15_Witness ==
    /\ kCalls = 2
    /\ kPc = "post_wait"
    /\ Len(kLog) = 1
    /\ kLog[1].to = "chat"
    /\ kLog[1].params.access_token = access_token
    /\ clock > 1

(***************************************************************************)
(*     7.  grant_token AND async_grant_token FROM THE SAME STARTING POINT  *)
(***************************************************************************)
\* The caches a client can hold: empty as constructed, or a token with any
\* expiry the clock and the lifetimes allow (0 after a half-finished first
\* refresh).
Caches ==
    {[token |-> "", expires |-> 0]}
    \cup {[token |-> t, expires |-> e] :
              t \in Tokens, e \in 0..(MaxClock + MaxLifetime)}

\* grant_token as a whole (lines 50-69): whether it reused the cache, the
\* requests it sent, what it returned or raised and the cache it left.
grant_token_run(tok, expires, now, answer) ==
    IF grant_token_cached(tok, now, expires)
    THEN [reused |-> TRUE, grantCalls |-> 0, ret |-> Ok(tok),
          token |-> tok, expires |-> expires]
    ELSE LET s == StoreGrant(tok, expires, now, answer) IN
         [reused |-> FALSE, grantCalls |-> 1, ret |-> s.ret,
          token |-> s.token, expires |-> s.expires]

\* async_grant_token as a whole (lines 71-94).
async_grant_token_run(tok, expires, now, answer) ==
    IF async_grant_token_cached(tok, now, expires)
    THEN [reused |-> TRUE, grantCalls |-> 0, ret |-> Ok(tok),
          token |-> tok, expires |-> expires]
    ELSE LET s == async_StoreGrant(tok, expires, now, answer) IN
         [reused |-> FALSE, grantCalls |-> 1, ret |-> s.ret,
          token |-> s.token, expires |-> s.expires]

EquivInit ==
    /\ eIn \in [cache : Caches, now : 1..MaxClock, answer : GrantAnswers]
    /\ eSync = NoRet
    /\ eAsync = NoRet
    /\ access_token = ""
    /\ access_token_expires = 0
    /\ clock = 1
    /\ pc = "idle"
    /\ now_timestamp = 0
    /\ grantCalls = 0
    /\ r_grant = NoGrantAnswer
    /\ ret = NoRet
    /\ calls = 0
    /\ issued = NoIssue
    /\ messages = <<>> /\ encRet = NoRet
    /\ dOp = "none" /\ dReq = NoRet /\ dResp = NoRet /\ dRet = NoRet
    /\ body = <<>> /\ chunks = <<>> /\ sRet = NoRet
    /\ conn = "none" /\ cOp = "none" /\ cPhase = "idle" /\ cExit = "none"
    /\ cLeft = <<>> /\ cYielded = 0
    /\ kOp = "none" /\ kPc = "idle" /\ kArgs = NoRet /\ kNow = 0 /\ kLog = <<>>
    /\ kAnswer = NoRet /\ kLeft = <<>> /\ kRaised = "none" /\ kCalls = 0
    /\ mPrompt = "" /\ mHistory = <<>> /\ mMessages = <<>> /\ mDone = FALSE
    /\ streaming = FALSE /\ gAnswer = <<>> /\ gContent = NoRet /\ gDone = FALSE
    /\ aPc = <<>> /\ aNow = <<>> /\ aAnswer = NoGrantAnswer /\ aCalls = 0

RunGrantToken ==
    /\ eSync = NoRet
    /\ eSync' = grant_token_run(eIn.cache.token, eIn.cache.expires, eIn.now,
                                eIn.answer)
    /\ UNCHANGED <<eIn, eAsync>>
    /\ UNCHANGED notEquiv

RunAsyncGrantToken ==
    /\ eAsync = NoRet
    /\ eAsync' = async_grant_token_run(eIn.cache.token, eIn.cache.expires,
                                       eIn.now, eIn.answer)
    /\ UNCHANGED <<eIn, eSync>>
    /\ UNCHANGED notEquiv

EquivNext == RunGrantToken \/ RunAsyncGrantToken

SpecEquiv == EquivInit /\ [][EquivNext]_vars

(***************************************************************************)
(* Claims about the two variants, checked under SpecEquiv.                 *)
(***************************************************************************)
\* C16: from the same cached token and expiry, the same clock value and the
\* same answer of the token endpoint, grant_token and async_grant_token
\* agree on reusing or refreshing, on the number of token requests, on the
\* token returned or the error raised, and on the cache they leave.
C16_VariantsAgree ==
    (eSync /= NoRet /\ eAsync /= NoRet)
        => /\ eSync.reused = eAsync.reused
           /\ eSync.grantCalls = eAsync.grantCalls
           /\ eSync.ret = eAsync.ret
           /\ eSync.token = eAsync.token
           /\ eSync.expires = eAsync.expires

\* Both variants ran at the very second the cached token expired, refreshed
\* and returned the token of the answer.
C16_Witness ==
    /\ eSync /= NoRet
    /\ eAsync /= NoRet
    /\ eIn.cache.token /= ""
    /\ eIn.now = eIn.cache.expires
    /\ eSync.grantCalls = 1
    /\ eSync.ret.kind = "ok"
    /\ eAsync.ret = eSync.ret

(***************************************************************************)
(*                      8.  construct_message                              *)
(***************************************************************************)
\* The pairs of a history: a human text with the assistant's answer, or the
\* pair that line 525 makes of a system text.
Pairs == {<<"a", "b">>, <<"b", "a">>, <<"c", "b">>, <<"sys", "OK\n">>}

PairHistories == UNION {[1..n -> Pairs] : n \in 0..MaxPairs}

MsgInit ==
    /\ mPrompt = ""
    /\ mHistory = <<>>
    /\ mMessages = <<>>
    /\ mDone = FALSE
    /\ access_token = ""
    /\ access_token_expires = 0
    /\ clock = 1
    /\ pc = "idle"
    /\ now_timestamp = 0
    /\ grantCalls = 0
    /\ r_grant = NoGrantAnswer
    /\ ret = NoRet
    /\ calls = 0
    /\ issued = NoIssue
    /\ messages = <<>> /\ encRet = NoRet
    /\ dOp = "none" /\ dReq = NoRet /\ dResp = NoRet /\ dRet = NoRet
    /\ body = <<>> /\ chunks = <<>> /\ sRet = NoRet
    /\ conn = "none" /\ cOp = "none" /\ cPhase = "idle" /\ cExit = "none"
    /\ cLeft = <<>> /\ cYielded = 0
    /\ kOp = "none" /\ kPc = "idle" /\ kArgs = NoRet /\ kNow = 0 /\ kLog = <<>>
    /\ kAnswer = NoRet /\ kLeft = <<>> /\ kRaised = "none" /\ kCalls = 0
    /\ eIn = NoRet /\ eSync = NoRet /\ eAsync = NoRet
    /\ streaming = FALSE /\ gAnswer = <<>> /\ gContent = NoRet /\ gDone = FALSE
    /\ aPc = <<>> /\ aNow = <<>> /\ aAnswer = NoGrantAnswer /\ aCalls = 0

\* construct_message on the prompt and the history that a user of
\* WenxinClient passed to one of the completion calls (lines 116, 155, 185,
\* 224).
ConstructMessage ==
    /\ ~mDone
    /\ \E prompt \in Prompts \cup {"a"}, history \in PairHistories :
         /\ mPrompt' = prompt
         /\ mHistory' = history
         /\ mMessages' = construct_message(prompt, history)
    /\ mDone' = TRUE
    /\ UNCHANGED notMsg

\* construct_message on what _convert_messages_to_prompt returned
\* (ChatWenxin._generate, lines 547-551, then 555 or 564).
ConstructFromEncoded ==
    /\ ~mDone
    /\ \E msgs \in Conversations :
         LET enc == convert_messages_to_prompt(msgs) IN
         /\ enc.kind = "ok"
         /\ mPrompt' = enc.prompt
         /\ mHistory' = enc.history
         /\ mMessages' = construct_message(enc.prompt, enc.history)
    /\ mDone' = TRUE
    /\ UNCHANGED notMsg

MsgNext == ConstructMessage \/ ConstructFromEncoded

SpecMessage == MsgInit /\ [][MsgNext]_vars

(***************************************************************************)
(* Claims about construct_message, checked under SpecMessage.              *)
(***************************************************************************)
\* C17: for a prompt and a history of n pairs the list construct_message
\* returns has 2n+1 entries; the entries at odd places have role user and
\* those at even places role assistant; entries 2i-1 and 2i hold the two
\* texts of the i-th pair; the last entry is the prompt with role user.
\* This holds for the histories the encoder returns and for histories with
\* (system text, "OK\n") pairs.
C17_MessagesOfHistory ==
    mDone =>
        LET n == Len(mHistory) IN
        /\ Len(mMessages) = 2 * n + 1
        /\ \A i \in 1..(2 * n + 1) :
               mMessages[i].role = (IF i % 2 = 1 THEN "user" ELSE "assistant")
        /\ \A i \in 1..n :
               /\ mMessages[2 * i - 1].content = mHistory[i][1]
               /\ mMessages[2 * i].content = mHistory[i][2]
        /\ mMessages[2 * n + 1] = [role |-> "user", content |-> mPrompt]

\* A history of a human/assistant pair and a (system text, "OK\n") pair gave
\* five entries.
C17_Witness ==
    /\ mDone
    /\ mHistory = << <<"sys", "OK\n">>, <<"a", "b">> >>
    /\ Len(mMessages) = 5
    /\ mMessages[1] = [role |-> "user", content |-> "sys"]
    /\ mMessages[2] = [role |-> "assistant", content |-> "OK\n"]

(***************************************************************************)
(*                      9.  ChatWenxin._generate                           *)
(***************************************************************************)
\* The texts a result delta may hold, as sequences of characters.
Deltas == {<<"H", "e">>, <<"l", "l", "o">>, <<>>}

Answers == UNION {[1..n -> Deltas] : n \in 0..MaxDeltas}

\* The loop of lines 554-558 from the i-th delta on: completion += result.
RECURSIVE accumulate(_, _, _)
accumulate(deltas, i, text) ==
    IF i > Len(deltas) THEN text
    ELSE accumulate(deltas, i + 1, text \o deltas[i])

\* What the vendor sends for an answer: one event per delta when streaming
\* was asked, one payload with the whole text otherwise.
StreamedPayloads(answer) == [i \in 1..Len(answer) |-> [result |-> answer[i]]]
SinglePayload(answer)    == [result |-> accumulate(answer, 1, <<>>)]

\* Lines 553-558: the content is a str, the deltas' results concatenated.
generate_streaming(stream_resp) ==
    [type |-> "str",
     text |-> accumulate([i \in 1..Len(stream_resp) |-> stream_resp[i].result],
                         1, <<>>)]

\* Lines 564-565: "completion = response", the payload that completion
\* returned.
generate_blocking(response) == [type |-> "dict", payload |-> response]

GenInit ==
    /\ streaming \in BOOLEAN
    /\ gAnswer \in Answers
    /\ gContent = NoRet
    /\ gDone = FALSE
    /\ access_token = ""
    /\ access_token_expires = 0
    /\ clock = 1
    /\ pc = "idle"
    /\ now_timestamp = 0
    /\ grantCalls = 0
    /\ r_grant = NoGrantAnswer
    /\ ret = NoRet
    /\ calls = 0
    /\ issued = NoIssue
    /\ messages = <<>> /\ encRet = NoRet
    /\ dOp = "none" /\ dReq = NoRet /\ dResp = NoRet /\ dRet = NoRet
    /\ body = <<>> /\ chunks = <<>> /\ sRet = NoRet
    /\ conn = "none" /\ cOp = "none" /\ cPhase = "idle" /\ cExit = "none"
    /\ cLeft = <<>> /\ cYielded = 0
    /\ kOp = "none" /\ kPc = "idle" /\ kArgs = NoRet /\ kNow = 0 /\ kLog = <<>>
    /\ kAnswer = NoRet /\ kLeft = <<>> /\ kRaised = "none" /\ kCalls = 0
    /\ eIn = NoRet /\ eSync = NoRet /\ eAsync = NoRet
    /\ mPrompt = "" /\ mHistory = <<>> /\ mMessages = <<>> /\ mDone = FALSE
    /\ aPc = <<>> /\ aNow = <<>> /\ aAnswer = NoGrantAnswer /\ aCalls = 0

\* _generate (lines 547-567) on an answer without error.
Generate ==
    /\ ~gDone
    /\ gContent' = IF streaming
                   THEN generate_streaming(StreamedPayloads(gAnswer))
                   ELSE generate_blocking(SinglePayload(gAnswer))
    /\ gDone' = TRUE
    /\ UNCHANGED <<streaming, gAnswer>>
    /\ UNCHANGED notGen

GenNext == Generate

SpecGenerate == GenInit /\ [][GenNext]_vars

(***************************************************************************)
(* Claims about _generate, checked under SpecGenerate.                     *)
(***************************************************************************)
\* C18: in both modes the content of the message _generate returns is the
\* complete text of the answer: the deltas concatenated in order when
\* streaming, the result field of the payload when not; so both modes give
\* the same content for the same answer.
C18_SameContentInBothModes ==
    gDone => /\ gContent.type = "str"
             /\ gContent.text = accumulate(gAnswer, 1, <<>>)

(***************************************************************************)
(*        10.  CONCURRENT async_grant_token CALLS ON ONE CLIENT            *)
(*                                                                         *)
(* A coroutine is suspended only at the awaits of lines 79-91; lines 73-75 *)
(* run without interruption, and so do lines 92-94.                        *)
(***************************************************************************)
Coros == {"c1", "c2"}

AsyncInit ==
    /\ aPc = [c \in Coros |-> "idle"]
    /\ aNow = [c \in Coros |-> 0]
    /\ aAnswer = NoGrantAnswer
    /\ aCalls = 0
    /\ access_token = ""
    /\ access_token_expires = 0
    /\ clock = 1
    /\ pc = "idle"
    /\ now_timestamp = 0
    /\ grantCalls = 0
    /\ r_grant = NoGrantAnswer
    /\ ret = NoRet
    /\ calls = 0
    /\ issued = NoIssue
    /\ messages = <<>> /\ encRet = NoRet
    /\ dOp = "none" /\ dReq = NoRet /\ dResp = NoRet /\ dRet = NoRet
    /\ body = <<>> /\ chunks = <<>> /\ sRet = NoRet
    /\ conn = "none" /\ cOp = "none" /\ cPhase = "idle" /\ cExit = "none"
    /\ cLeft = <<>> /\ cYielded = 0
    /\ kOp = "none" /\ kPc = "idle" /\ kArgs = NoRet /\ kNow = 0 /\ kLog = <<>>
    /\ kAnswer = NoRet /\ kLeft = <<>> /\ kRaised = "none" /\ kCalls = 0
    /\ eIn = NoRet /\ eSync = NoRet /\ eAsync = NoRet
    /\ mPrompt = "" /\ mHistory = <<>> /\ mMessages = <<>> /\ mDone = FALSE
    /\ streaming = FALSE /\ gAnswer = <<>> /\ gContent = NoRet /\ gDone = FALSE

\* Lines 73-79: the test of the cache, and on a miss the request is sent and
\* the coroutine is suspended.
AsyncCall(c) ==
    /\ aPc[c] = "idle"
    /\ aCalls < MaxCalls
    /\ aCalls' = aCalls + 1
    /\ aNow' = [aNow EXCEPT ![c] = clock]
    /\ aPc' = [aPc EXCEPT ![c] =
                  IF async_grant_token_cached(access_token, clock,
                                              access_token_expires)
                  THEN "done" ELSE "wait"]
    /\ UNCHANGED <<aAnswer, access_token, access_token_expires, clock>>
    /\ UNCHANGED <<pc, now_timestamp, grantCalls, r_grant, ret, calls, issued>>
    /\ UNCHANGED notAsync

\* Lines 89-94: the coroutine is resumed with the answer and runs to its
\* return or raise.
AsyncResume(c) ==
    /\ aPc[c] = "wait"
    /\ \E answer \in GrantAnswers :
         LET s == async_StoreGrant(access_token, access_token_expires,
                                   aNow[c], answer) IN
         /\ aAnswer' = answer
         /\ access_token' = s.token
         /\ access_token_expires' = s.expires
    /\ aPc' = [aPc EXCEPT ![c] = "done"]
    /\ UNCHANGED <<aNow, aCalls, clock>>
    /\ UNCHANGED <<pc, now_timestamp, grantCalls, r_grant, ret, calls, issued>>
    /\ UNCHANGED notAsync

\* The caller of the coroutine goes on and may call again.
AsyncReturn(c) ==
    /\ aPc[c] = "done"
    /\ aPc' = [aPc EXCEPT ![c] = "idle"]
    /\ aNow' = [aNow EXCEPT ![c] = 0]
    /\ UNCHANGED <<aAnswer, aCalls>>
    /\ UNCHANGED tokenVars
    /\ UNCHANGED notAsync

AsyncNext ==
    \/ Tick
    \/ \E c \in Coros : AsyncCall(c)
    \/ \E c \in Coros : AsyncResume(c)
    \/ \E c \in Coros : AsyncReturn(c)

SpecAsync == AsyncInit /\ [][AsyncNext]_vars

(***************************************************************************)
(* Claims about concurrent calls, checked under SpecAsync.                 *)
(***************************************************************************)
\* C19: the cached pair starts as the empty pair, and every step that
\* changes the token or the expiry is the resumption of one coroutine with a
\* successful answer that sets both, the token to the token of that answer
\* and the expiry to that coroutine's call time plus the lifetime of the
\* same answer.  So whatever the interleaving, no coroutine sees the token of
\* one answer with the expiry of another or with the previous expiry.
C19_PairFromOneResponse ==
    [][ (access_token' /= access_token
            \/ access_token_expires' /= access_token_expires)
        => \E c \in Coros :
              /\ aPc[c] = "wait"
              /\ aPc'[c] = "done"
              /\ aAnswer'.kind = "http"
              /\ aAnswer'.status = 200
              /\ aAnswer'.json
              /\ {"access_token", "expires_in"} \subseteq DOMAIN aAnswer'.body
              /\ access_token' = aAnswer'.body.access_token
              /\ access_token_expires' = aNow[c] + aAnswer'.body.expires_in
      ]_vars

(***************************************************************************)
(* A further claim about the credential cache, checked under SpecToken.    *)
(***************************************************************************)
\* C20: after a successful refresh the cached expiry is at most the time the
\* token endpoint issued the token plus the lifetime it declared; and a
\* get_token call served from the cache returns the token issued last, at a
\* time strictly before the end of that lifetime, after any calls and clock
\* advances.
C20_ConservativeExpiry ==
    /\ [](Refreshed
            => access_token_expires <= issued.at + issued.expires_in)
    /\ [][ (IsGetTokenCall /\ pc' = "idle")
           => /\ ret' = Ok(issued.token)
              /\ clock < issued.at + issued.expires_in ]_vars

\* A call was served from the cache in the last second before the cached
\* expiry, of a token that the endpoint had issued after the call time of the
\* refresh.
C20_Witness ==
    /\ pc = "idle"
    /\ grantCalls = 0
    /\ calls >= 2
    /\ ret = Ok(issued.token)
    /\ now_timestamp = access_token_expires - 1
    /\ issued.at + issued.expires_in > access_token_expires

=============================================================================
